---- MODULE Spec2Model ----
(***************************************************************************)
(* Attendance tracker (src/app.py): a Flask JSON API over two tables,      *)
(* User and Attendance, reached through one SQLAlchemy session.            *)
(*                                                                         *)
(* Spec           the attendance ledger: requests executed one after       *)
(*                another, the clock advancing between them.               *)
(* SpecDirectory  the user directory: requests executed one after          *)
(*                another, with every payload of the three User fields.    *)
(* SpecApi        every JSON route, the three that only read included,     *)
(*                requests executed one after another.                     *)
(* SpecConc       two worker threads whose check-in and check-out          *)
(*                handlers are split at their reads and their write.       *)
(* SpecConcDirectory  two worker threads whose create and update handlers  *)
(*                are split at their queries and their commit.             *)
(***************************************************************************)
EXTENDS Integers, FiniteSets, Sequences, TLC

\* ------------------------------------------------------------- bounds
MaxUserId == 2
MaxAttId == 2
MaxClock == 1
TicksPerDay == 1

\* ------------------------------------------------------------- values
NULL == -1

Names == {"", "Ada"}
Emails == {"a@x.com", "b@x.com", "c@x.com"}
EmployeeIds == {"E1", "E2"}
Fields == {"name", "email", "employee_id"}
Statuses == {"present", "absent", "late", "leave"}

UserIds == 1..MaxUserId
AttIds == 1..MaxAttId
\* ids a client names in a request: each may be held by a row or by none
ReqUserIds == UserIds
ReqAttIds == AttIds

FieldValues(k) ==
    IF k = "name" THEN Names ELSE IF k = "email" THEN Emails ELSE EmployeeIds

\* JSON objects carrying any subset of the three User fields
Payloads ==
    UNION { { p \in [S -> Names \cup Emails \cup EmployeeIds] :
                \A k \in S : p[k] \in FieldValues(k) } : S \in SUBSET Fields }

\* the requests of the ledger's specification: two employees and a record
\* without email and employee_id, and patches of the email alone
LedgerEmails == {"a@x.com", "b@x.com"}
LedgerPayloads ==
    { p \in Payloads :
        \/ p = [name |-> "Ada"]
        \/ p = [name |-> "Ada", email |-> "a@x.com", employee_id |-> "E1"]
        \/ p = [name |-> "Ada", email |-> "b@x.com", employee_id |-> "E2"] }
LedgerPatches == { p \in Payloads : DOMAIN p = {"email"} /\ p["email"] \in LedgerEmails }

\* The calendar days as the API writes them ('%Y-%m-%d'), day 0 first.
DateStrings == <<"1970-01-01", "1970-01-02", "1970-01-03">>

\* query strings of get_attendance: any subset of the two arguments, user_id
\* an integer (0 included), date a day, the empty text or a malformed text
ListUserIds == 0..MaxUserId
ListDates == {"", "soon", DateStrings[1], DateStrings[2]}
ListArgs ==
    { [k \in {} |-> 0] }
    \cup { [user_id |-> u] : u \in ListUserIds }
    \cup { [date |-> d] : d \in ListDates }
    \cup { [user_id |-> u, date |-> d] : u \in ListUserIds, d \in ListDates }

\* two employees
ConcPayloads ==
    { [name |-> "Ada", email |-> "a@x.com", employee_id |-> "E1"],
      [name |-> "Ada", email |-> "b@x.com", employee_id |-> "E2"] }

\* JSON bodies of a check-in: without the user_id key, or with it
CheckInBodies == {[note |-> "hi"]} \cup { [user_id |-> u] : u \in ReqUserIds }

VARIABLES
    users,       \* table User: id -> row
    attendance,  \* table Attendance: id -> row
    session,     \* db.session: id -> User object with uncommitted attribute changes
    now,         \* the UTC clock, in ticks
    last,        \* the last request and its response
    threads      \* SpecConc: what each worker thread holds between its two steps

vars == <<users, attendance, session, now, last, threads>>

\* ------------------------------------------------------------- helpers
Max(S) == CHOOSE x \in S : \A y \in S : y <= x

\* as NextId, the id taken from the number of rows
NextIdCount(table) == Cardinality(DOMAIN table) + 1

\* INTEGER PRIMARY KEY of SQLite: the largest id in the table plus one
NextId(table) == IF DOMAIN table = {} THEN 1 ELSE Max(DOMAIN table) + 1

\* datetime.date(): the calendar day of a timestamp
DateOf(t) == t \div TicksPerDay

Put(table, id, row) ==
    [i \in DOMAIN table \cup {id} |-> IF i = id THEN row ELSE table[i]]

Remove(table, ids) == [i \in DOMAIN table \ ids |-> table[i]]

NoBody == [kind |-> "none"]

\* the last request (handler, id in the path or body, JSON body when the
\* handler read it) and its response (status code, error text, JSON body)
Response(op, id, req, status, error, body) ==
    [op |-> op, id |-> id, req |-> req, status |-> status, error |-> error,
     body |-> body]

Idle == [pc |-> "idle"]
Threads == {1, 2}

\* ------------------------------------------------------------- the session
\* What a query of this session sees: the committed rows, with the session's
\* pending attribute changes flushed over them (autoflush before every query).
View(table, s) ==
    [i \in DOMAIN table |-> IF i \in DOMAIN s THEN s[i] ELSE table[i]]

\* as UniqueOK, with the constraint on the email column alone
UniqueOKEmail(table) ==
    \A i, j \in DOMAIN table : i # j => table[i].email # table[j].email

\* unique=True on User.email and User.employee_id
UniqueOK(table) ==
    \A i, j \in DOMAIN table :
        i # j => /\ table[i].email # table[j].email
                 /\ table[i].employee_id # table[j].employee_id

\* a session with nothing pending: a new one, or one that has just committed
Clean == <<>>

\* as shutdown_session, with the session kept from one request to the next
shutdown_session_keep(s) == s

\* Flask-SQLAlchemy removes the scoped session when the request's application
\* context is torn down: pending changes are rolled back.
shutdown_session(s) == Clean

\* User.query.filter_by(email=...)
filter_by_email(table, email) == { i \in DOMAIN table : table[i].email = email }

\* as filter_by_employee_id, with the value compared to the email column
filter_by_employee_id_as_email(table, eid) ==
    { i \in DOMAIN table : table[i].email = eid }

\* User.query.filter_by(employee_id=...)
filter_by_employee_id(table, eid) ==
    { i \in DOMAIN table : table[i].employee_id = eid }

\* as filter_by_user_date, with the user's id compared to the record's id
filter_by_id_date(table, uid, date) ==
    { a \in DOMAIN table : a = uid /\ table[a].date = date }

\* as filter_by_user_date, counting only the records still open
filter_by_user_date_open(table, uid, date) ==
    { a \in DOMAIN table :
        /\ table[a].user_id = uid
        /\ table[a].date = date
        /\ table[a].check_out = NULL }

\* Attendance.query.filter_by(user_id=..., date=...)
filter_by_user_date(table, uid, date) ==
    { a \in DOMAIN table : table[a].user_id = uid /\ table[a].date = date }

\* Attendance.query.filter_by(user_id=...)
filter_by_user(table, uid) == { a \in DOMAIN table : table[a].user_id = uid }

\* as attendance_records, without the cascade
attendance_records_no_cascade(table, uid) == {}

\* as attendance_records, the cascade reaching every record
attendance_records_all(table, uid) == DOMAIN table

\* as attendance_records, the cascade reaching only the records still open
attendance_records_open(table, uid) ==
    { a \in filter_by_user(table, uid) : table[a].check_out = NULL }

\* the rows the ORM deletes with a User: cascade='all, delete-orphan'
attendance_records(table, uid) == filter_by_user(table, uid)

\* the request ends without a commit
Abort(op, id, req, status, error, s) ==
    /\ last' = Response(op, id, req, status, error, NoBody)
    /\ session' = shutdown_session(s)
    /\ UNCHANGED <<users, attendance, now, threads>>

UserDict(id, row) ==
    [kind |-> "user", id |-> id, name |-> row.name, email |-> row.email,
     employee_id |-> row.employee_id, created_at |-> row.created_at]

AttendanceDict(id, row) ==
    [kind |-> "attendance", id |-> id, user_id |-> row.user_id,
     check_in |-> row.check_in, check_out |-> row.check_out,
     date |-> row.date, status |-> row.status]

\* ------------------------------------------------------------- users
create_user(data) ==
    LET view == View(users, session) IN
    IF ~ (Fields \subseteq DOMAIN data)
    THEN Abort("create_user", 0, data, 400, "Missing required fields", session)
    ELSE IF filter_by_email(view, data["email"]) # {}
    THEN Abort("create_user", 0, data, 400, "Email already exists", session)
    ELSE IF filter_by_employee_id(view, data["employee_id"]) # {}
    THEN Abort("create_user", 0, data, 400, "Employee ID already exists", session)
    ELSE LET id == NextId(view)
             row == [name |-> data["name"], email |-> data["email"],
                     employee_id |-> data["employee_id"], created_at |-> now]
             table == Put(view, id, row)
         IN  /\ id \in UserIds
             /\ IF UniqueOK(table)
                THEN /\ users' = table
                     /\ last' = Response("create_user", 0, data, 201, "", UserDict(id, row))
                ELSE /\ users' = users
                     /\ last' = Response("create_user", 0, data, 500,
                                         "Internal server error", NoBody)
             /\ session' = shutdown_session(IF UniqueOK(table) THEN Clean ELSE session)
             /\ UNCHANGED <<attendance, now, threads>>

get_user(user_id) ==
    LET view == View(users, session) IN
    IF user_id \notin DOMAIN view
    THEN Abort("get_user", user_id, NoBody, 404, "Not found", session)
    ELSE /\ last' = Response("get_user", user_id, NoBody, 200, "",
                             UserDict(user_id, view[user_id]))
         /\ session' = shutdown_session(session)
         /\ UNCHANGED <<users, attendance, now, threads>>

get_users ==
    LET view == View(users, session) IN
    /\ last' = Response("get_users", 0, NoBody, 200, "",
                        [kind |-> "users",
                         users |-> { UserDict(i, view[i]) : i \in DOMAIN view }])
    /\ session' = shutdown_session(session)
    /\ UNCHANGED <<users, attendance, now, threads>>

\* the three assignments of the handler, each recorded in the session
SetField(row, data, k) == IF k \in DOMAIN data THEN [row EXCEPT ![k] = data[k]] ELSE row

\* as email_exists, without the comparison to the user's own email
email_exists_any(table, user, email) == filter_by_email(table, email) # {}

\* the test before each of the two guarded assignments of update_user
email_exists(table, user, email) ==
    filter_by_email(table, email) # {} /\ user.email # email

employee_id_exists(table, user, eid) ==
    filter_by_employee_id(table, eid) # {} /\ user.employee_id # eid

update_user(user_id, data) ==
    LET view == View(users, session) IN
    IF user_id \notin DOMAIN view
    THEN Abort("update_user", user_id, NoBody, 404, "Not found", session)
    ELSE
    LET u1 == SetField(view[user_id], data, "name")
        s1 == Put(session, user_id, u1)
        emailClash ==
            "email" \in DOMAIN data /\ email_exists(View(users, s1), u1, data["email"])
        u2 == SetField(u1, data, "email")
        s2 == Put(session, user_id, u2)
        idClash ==
            /\ "employee_id" \in DOMAIN data
            /\ employee_id_exists(View(users, s2), u2, data["employee_id"])
        u3 == SetField(u2, data, "employee_id")
        s3 == Put(session, user_id, u3)
        table == View(users, s3)
    IN  IF emailClash
        THEN Abort("update_user", user_id, data, 400, "Email already exists", s1)
        ELSE IF idClash
        THEN Abort("update_user", user_id, data, 400, "Employee ID already exists", s2)
        ELSE /\ IF UniqueOK(table)
                THEN /\ users' = table
                     /\ last' = Response("update_user", user_id, data, 200, "",
                                         UserDict(user_id, u3))
                ELSE /\ users' = users
                     /\ last' = Response("update_user", user_id, data, 500,
                                         "Internal server error", NoBody)
             /\ session' = shutdown_session(IF UniqueOK(table) THEN Clean ELSE s3)
             /\ UNCHANGED <<attendance, now, threads>>

delete_user(user_id) ==
    LET view == View(users, session) IN
    IF user_id \notin DOMAIN view
    THEN Abort("delete_user", user_id, NoBody, 404, "Not found", session)
    ELSE /\ users' = Remove(view, {user_id})
         /\ attendance' = Remove(attendance, attendance_records(attendance, user_id))
         /\ last' = Response("delete_user", user_id, NoBody, 204, "", NoBody)
         /\ session' = shutdown_session(Clean)
         /\ UNCHANGED <<now, threads>>

\* ------------------------------------------------------------- attendance
\* The two reads of datetime.utcnow() in check_in: the first gives today, and
\* the second, t, gives check_in; the clock may advance between them.
LaterReads == { t \in now..(now + 1) : t <= MaxClock }

\* as is_checked_out, never seeing a check-out
is_checked_out_never(row) == FALSE

\* `if attendance.check_out:` (a datetime is always truthy)
is_checked_out(row) == row.check_out # NULL

\* as NewAttendance, with the status taken from the time of the check-in
NewAttendanceLate(user_id, t, today) ==
    [user_id |-> user_id, check_in |-> t, check_out |-> NULL, date |-> today,
     status |-> IF DateOf(t) = today THEN "late" ELSE "present"]

\* Attendance(user_id=..., check_in=..., date=today, status='present')
NewAttendance(user_id, t, today) ==
    [user_id |-> user_id, check_in |-> t, check_out |-> NULL, date |-> today,
     status |-> "present"]

check_in(data, t) ==
    LET view == View(users, session) IN
    IF "user_id" \notin DOMAIN data
    THEN Abort("check_in", 0, data, 400, "Missing user_id", session)
    ELSE IF data["user_id"] \notin DOMAIN view
    THEN Abort("check_in", data["user_id"], data, 404, "Not found", session)
    ELSE
    LET today == DateOf(now)
        existing == filter_by_user_date(attendance, data["user_id"], today)
    IN  IF existing # {}
        THEN Abort("check_in", data["user_id"], data, 400, "Already checked in today", session)
        ELSE LET id == NextId(attendance)
                 row == NewAttendance(data["user_id"], t, today)
             IN  /\ id \in AttIds
                 /\ attendance' = Put(attendance, id, row)
                 /\ users' = View(users, session)
                 /\ now' = t
                 /\ last' = Response("check_in", data["user_id"], data, 201, "",
                                     AttendanceDict(id, row))
                 /\ session' = shutdown_session(Clean)
                 /\ UNCHANGED threads

check_out(attendance_id) ==
    IF attendance_id \notin DOMAIN attendance
    THEN Abort("check_out", attendance_id, NoBody, 404, "Not found", session)
    ELSE IF is_checked_out(attendance[attendance_id])
    THEN Abort("check_out", attendance_id, NoBody, 400, "Already checked out", session)
    ELSE LET row == [attendance[attendance_id] EXCEPT !.check_out = now]
         IN  /\ attendance' = Put(attendance, attendance_id, row)
             /\ users' = View(users, session)
             /\ last' = Response("check_out", attendance_id, NoBody, 200, "",
                                 AttendanceDict(attendance_id, row))
             /\ session' = shutdown_session(Clean)
             /\ UNCHANGED <<now, threads>>

\* The query of get_attendance: a filter is applied when its argument is
\* truthy (user_id: given and not 0; date: given).
query_attendance(table, user_id, date) ==
    { a \in DOMAIN table :
        /\ (user_id # NULL /\ user_id # 0) => table[a].user_id = user_id
        /\ date # NULL => table[a].date = date }

\* datetime.strptime(date, '%Y-%m-%d').date(): defined on the texts that
\* are days, a ValueError on the others
IsDate(text) == \E d \in 1..Len(DateStrings) : DateStrings[d] = text
strptime(text) == (CHOOSE d \in 1..Len(DateStrings) : DateStrings[d] = text) - 1

get_attendance(args) ==
    LET user_id == IF "user_id" \in DOMAIN args THEN args["user_id"] ELSE NULL
        dated == "date" \in DOMAIN args /\ args["date"] # ""
    IN  IF dated /\ ~ IsDate(args["date"])
        THEN Abort("get_attendance", 0, args, 500, "Internal server error", session)
        ELSE LET date == IF dated THEN strptime(args["date"]) ELSE NULL
                 records == query_attendance(attendance, user_id, date)
             IN  /\ last' = Response("get_attendance", 0, args, 200, "",
                                     [kind |-> "list",
                                      records |-> { AttendanceDict(a, attendance[a]) :
                                                      a \in records }])
                 /\ session' = shutdown_session(session)
                 /\ UNCHANGED <<users, attendance, now, threads>>

\* as summary_records, without the filter on the user
summary_records_all(table, uid) == DOMAIN table

\* the records of get_attendance_summary
summary_records(table, uid) == filter_by_user(table, uid)

CountStatus(table, records, status) ==
    Cardinality({ a \in records : table[a].status = status })

get_attendance_summary(user_id) ==
    LET view == View(users, session) IN
    IF user_id \notin DOMAIN view
    THEN Abort("summary", user_id, NoBody, 404, "Not found", session)
    ELSE LET records == summary_records(attendance, user_id)
             summary == [kind |-> "summary",
                         user |-> user_id,
                         total_records |-> Cardinality(records),
                         present |-> CountStatus(attendance, records, "present"),
                         absent |-> CountStatus(attendance, records, "absent"),
                         late |-> CountStatus(attendance, records, "late"),
                         leave |-> CountStatus(attendance, records, "leave"),
                         records |-> records]
         IN  /\ last' = Response("summary", user_id, NoBody, 200, "", summary)
             /\ session' = shutdown_session(session)
             /\ UNCHANGED <<users, attendance, now, threads>>

\* ------------------------------------------------------------- the clock
\* as Tick, the clock set back
TickBack ==
    /\ now > 0
    /\ now' = now - 1
    /\ UNCHANGED <<users, attendance, session, last, threads>>

Tick ==
    /\ now < MaxClock
    /\ now' = now + 1
    /\ UNCHANGED <<users, attendance, session, last, threads>>

\* ------------------------------------------------------------- Spec
Init ==
    /\ users = <<>>
    /\ attendance = <<>>
    /\ session = Clean
    /\ now = 0
    /\ last = Response("none", 0, NoBody, 0, "", NoBody)
    /\ threads = [t \in Threads |-> Idle]

CreateUser == \E data \in LedgerPayloads : create_user(data)
UpdateUser == \E id \in ReqUserIds, data \in LedgerPatches : update_user(id, data)
DeleteUser == \E id \in ReqUserIds : delete_user(id)
CheckIn == \E data \in CheckInBodies, t \in LaterReads : check_in(data, t)
CheckOut == \E id \in ReqAttIds : check_out(id)
Summary == \E id \in ReqUserIds : get_attendance_summary(id)

\* The attendance ledger under every sequence of requests, one after another,
\* with the clock advancing between them.
Next ==
    \/ Tick
    \/ CreateUser
    \/ UpdateUser
    \/ DeleteUser
    \/ CheckIn
    \/ CheckOut
    \/ Summary

Spec == Init /\ [][Next]_vars

\* ------------------------------------------------------------- claims (Spec)
RecordsOf(u, d) ==
    { a \in DOMAIN attendance : attendance[a].user_id = u /\ attendance[a].date = d }

OnePerUserDate ==
    \A a, b \in DOMAIN attendance :
        (/\ attendance[a].user_id = attendance[b].user_id
         /\ attendance[a].date = attendance[b].date) => a = b

SecondCheckInRejected ==
    \A u \in ReqUserIds, t \in LaterReads :
        (/\ check_in([user_id |-> u], t)
         /\ u \in DOMAIN users
         /\ RecordsOf(u, DateOf(now)) # {})
        => /\ last'.status = 400
           /\ attendance' = attendance

\* C1: there is never more than one Attendance record for a (user_id, date)
\* pair, and a CheckIn of a user who already has a record for today's UTC date
\* is answered 400 and adds no record.
C1_OnePerUserDate == [](OnePerUserDate) /\ [][SecondCheckInRejected]_vars

C1_Witness ==
    /\ last.op = "check_in"
    /\ last.status = 400
    /\ last.error = "Already checked in today"
    /\ Cardinality(RecordsOf(last.id, DateOf(now))) = 1
    /\ \E a \in DOMAIN attendance :
           attendance[a].user_id = last.id /\ attendance[a].date # DateOf(now)

CheckOutOpen ==
    \A id \in DOMAIN attendance :
        (check_out(id) /\ attendance[id].check_out = NULL)
        => /\ last'.status = 200
           /\ id \in DOMAIN attendance'
           /\ attendance'[id].check_out = now

CheckOutClosed ==
    \A id \in DOMAIN attendance :
        (check_out(id) /\ attendance[id].check_out # NULL)
        => /\ last'.status = 400
           /\ UNCHANGED <<users, attendance>>

CheckOutKept ==
    \A id \in DOMAIN attendance \cap DOMAIN attendance' :
        attendance[id].check_out # NULL
        => attendance'[id].check_out = attendance[id].check_out

\* C3: a CheckOut of a record whose check_out is empty succeeds and sets
\* check_out to the current time; a CheckOut of a record whose check_out is set
\* is answered 400; and a check_out that is set keeps its value in every step
\* for as long as the record exists.
C3_CheckOutOnce == [][CheckOutOpen /\ CheckOutClosed /\ CheckOutKept]_vars

C3_Witness ==
    /\ last.op = "check_out"
    /\ last.status = 400
    /\ last.error = "Already checked out"
    /\ last.id \in DOMAIN attendance
    /\ attendance[last.id].check_out # NULL
    /\ attendance[last.id].check_out < now

DeleteExisting ==
    \A id \in DOMAIN users :
        delete_user(id)
        => /\ last'.status = 204
           /\ DOMAIN users' = DOMAIN users \ {id}
           /\ \A j \in DOMAIN users' : users'[j] = users[j]
           /\ DOMAIN attendance' =
                  { a \in DOMAIN attendance : attendance[a].user_id # id }
           /\ \A a \in DOMAIN attendance' : attendance'[a] = attendance[a]
           /\ query_attendance(attendance', id, NULL) = {}

DeleteUnknown ==
    \A id \in ReqUserIds \ DOMAIN users :
        delete_user(id)
        => /\ last'.status = 404
           /\ users' = users
           /\ attendance' = attendance

\* C4: Delete(id) of an existing User removes that User and exactly the
\* Attendance records with user_id = id, every other User and record staying as
\* it was, and List filtered by that user_id then returns nothing; Delete of an
\* unknown id is answered 404 and changes nothing.
C4_DeleteCascade == [][DeleteExisting /\ DeleteUnknown]_vars

C4_Witness ==
    /\ last.op = "delete_user"
    /\ last.status = 204
    /\ DOMAIN users # {}
    /\ DOMAIN attendance = {2}

CheckInOutcome(data, t) ==
    IF "user_id" \notin DOMAIN data
    THEN /\ last'.status = 400
         /\ last'.error = "Missing user_id"
         /\ UNCHANGED <<users, attendance>>
    ELSE IF data["user_id"] \notin DOMAIN users
    THEN /\ last'.status = 404
         /\ UNCHANGED <<users, attendance>>
    ELSE IF RecordsOf(data["user_id"], DateOf(now)) # {}
    THEN /\ last'.status = 400
         /\ last'.error = "Already checked in today"
         /\ UNCHANGED <<users, attendance>>
    ELSE /\ last'.status = 201
         /\ users' = users
         /\ \E id \in DOMAIN attendance' \ DOMAIN attendance :
              /\ DOMAIN attendance' = DOMAIN attendance \cup {id}
              /\ attendance'[id] =
                     [user_id |-> data["user_id"], check_in |-> now',
                      check_out |-> NULL, date |-> DateOf(now),
                      status |-> "present"]
         /\ \A a \in DOMAIN attendance : attendance'[a] = attendance[a]

\* C5: CheckIn answers 400 when user_id is missing, else 404 when no User has
\* that id, else 400 when a record exists for (user_id, today), checked out or
\* not, each time leaving Users and Attendance unchanged; else it adds exactly
\* one record with that user_id, check_in = the current time, date = today,
\* check_out empty and status = present.
C5_CheckInOrder ==
    [][\A data \in CheckInBodies, t \in LaterReads :
          check_in(data, t) => CheckInOutcome(data, t)]_vars

C5_Witness ==
    /\ last.op = "check_in"
    /\ last.status = 400
    /\ last.error = "Already checked in today"
    /\ \E a \in RecordsOf(last.id, DateOf(now)) : attendance[a].check_out # NULL

SummaryCounts ==
    (last.op = "summary" /\ last.status = 200)
    => LET mine == { a \in DOMAIN attendance : attendance[a].user_id = last.id }
           n(st) == Cardinality({ a \in mine : attendance[a].status = st })
       IN  /\ last.id \in DOMAIN users
           /\ last.body.total_records = Cardinality(mine)
           /\ last.body.present = n("present")
           /\ last.body.absent = n("absent")
           /\ last.body.late = n("late")
           /\ last.body.leave = n("leave")
           /\ (\A a \in mine : attendance[a].status \in Statuses)
              => last.body.present + last.body.absent + last.body.late
                 + last.body.leave = last.body.total_records

SummaryReadOnly ==
    \A u \in ReqUserIds :
        get_attendance_summary(u)
        => /\ UNCHANGED <<users, attendance>>
           /\ (u \notin DOMAIN users <=> last'.status = 404)

\* C10: Summary of an existing User counts that User's records, and only
\* those, in total and per status, the four status counts adding up to the
\* total; Summary of an unknown user is answered 404; Summary changes neither
\* Users nor Attendance.
C10_Summary == [](SummaryCounts) /\ [][SummaryReadOnly]_vars

C10_Witness ==
    /\ last.op = "summary"
    /\ last.status = 200
    /\ last.body.total_records = 1
    /\ \E a \in DOMAIN attendance : attendance[a].user_id # last.id

DateIsCheckInDay ==
    \A a \in DOMAIN attendance :
        attendance[a].date = DateOf(attendance[a].check_in)

\* C14: the date of every Attendance record is the UTC calendar day of its
\* check_in timestamp, also when the clock advances between the moment today
\* is computed and the moment the check_in timestamp is taken.
C14_DateOfCheckIn == DateIsCheckInDay

AllPresent == \A a \in DOMAIN attendance : attendance[a].status = "present"

SummaryAllPresent ==
    (last.op = "summary" /\ last.status = 200)
    => /\ last.body.present = last.body.total_records
       /\ last.body.absent = 0
       /\ last.body.late = 0
       /\ last.body.leave = 0

\* C15: every Attendance record has status = present in every reachable
\* state, and Summary of an existing user reports present = total_records and
\* absent = late = leave = 0.
C15_StatusPresent == AllPresent /\ SummaryAllPresent

C15_Witness ==
    /\ last.op = "summary"
    /\ last.status = 200
    /\ last.body.total_records >= 1
    /\ \A a \in last.body.records : attendance[a].check_out # NULL

OwnerExists ==
    \A a \in DOMAIN attendance : attendance[a].user_id \in DOMAIN users

NewUserOwnsNothing ==
    \A id \in DOMAIN users' \ DOMAIN users :
        \A a \in DOMAIN attendance' : attendance'[a].user_id # id

\* C18: the user_id of every Attendance record is the id of an existing User,
\* and a User that has just been created, also under an id a deleted User
\* had, owns no Attendance record.
C18_OwnerExists == [](OwnerExists) /\ [][NewUserOwnsNothing]_vars

C18_Witness ==
    /\ last.op = "create_user"
    /\ last.status = 201
    /\ last.body.id = 2
    /\ DOMAIN attendance = {2}

\* ------------------------------------------------------------- SpecDirectory
\* The user directory under every payload of the three fields, at one moment
\* of the clock.
DirCreateUser == \E data \in Payloads : create_user(data)
DirGetUser == \E id \in ReqUserIds : get_user(id)
DirUpdateUser == \E id \in ReqUserIds, data \in Payloads : update_user(id, data)
DirDeleteUser == \E id \in ReqUserIds : delete_user(id)

NextDirectory ==
    \/ DirCreateUser
    \/ DirGetUser
    \/ DirUpdateUser
    \/ DirDeleteUser

SpecDirectory == Init /\ [][NextDirectory]_vars

\* ------------------------------------------------------------- SpecApi
\* Every route of the API, one request after another: the requests of the
\* ledger's specification and the three that only read. The clock advances
\* with the second clock read of the check-ins.
GetUsers == get_users
GetUser == \E id \in ReqUserIds : get_user(id)
GetAttendance == \E args \in ListArgs : get_attendance(args)

NextApi ==
    \/ CreateUser
    \/ GetUsers
    \/ GetUser
    \/ UpdateUser
    \/ DeleteUser
    \/ GetAttendance
    \/ CheckIn
    \/ CheckOut
    \/ Summary

SpecApi == Init /\ [][NextApi]_vars

\* ------------------------------------------------------------- claims (SpecApi)
\* the stored records that match every filter of the query string
Matching(args) ==
    { a \in DOMAIN attendance :
        /\ "user_id" \in DOMAIN args => attendance[a].user_id = args["user_id"]
        /\ ("date" \in DOMAIN args /\ IsDate(args["date"]))
           => attendance[a].date = strptime(args["date"]) }

\* C11: List returns exactly the stored Attendance records that match every
\* filter given: those of the user_id when one is given, for every integer, 0
\* and the ids of no user included; those of the date when one is given; both
\* when both are given; all records only when neither is given.
C11_ListFilters ==
    (last.op = "get_attendance" /\ last.status = 200)
    => last.body.records =
           { AttendanceDict(a, attendance[a]) : a \in Matching(last.req) }

Appears ==
    \A a \in DOMAIN attendance' \ DOMAIN attendance :
        /\ last'.op = "check_in"
        /\ last'.status = 201
        /\ last'.body = AttendanceDict(a, attendance'[a])

Disappears ==
    \A a \in DOMAIN attendance \ DOMAIN attendance' :
        /\ last'.op = "delete_user"
        /\ last'.status = 204
        /\ last'.id = attendance[a].user_id

Changes ==
    \A a \in DOMAIN attendance \cap DOMAIN attendance' :
        attendance'[a] # attendance[a]
        => /\ last'.op = "check_out"
           /\ last'.status = 200
           /\ last'.id = a
           /\ attendance'[a] =
                  [attendance[a] EXCEPT !.check_out = attendance'[a].check_out]

ReadOps == {"create_user", "update_user", "get_users", "get_user",
            "get_attendance", "summary"}

ReadsKeep ==
    (last' # last /\ last'.op \in ReadOps) => attendance' = attendance

\* C13: an Attendance record appears only by a successful CheckIn, disappears
\* only by a successful Delete of its owning User, and changes only by a
\* successful CheckOut of that record, in its check_out and nothing else;
\* Create user, Update user, Get, List and Summary leave every record as it is.
C13_LifecycleFrame == [][Appears /\ Disappears /\ Changes /\ ReadsKeep]_vars

C13_Witness ==
    /\ last.op = "check_out"
    /\ last.status = 200
    /\ Cardinality(DOMAIN attendance) = 2
    /\ \E a \in DOMAIN attendance : attendance[a].check_out = NULL

\* ------------------------------------------------------------- SpecConc
\* Two worker threads, each with its own session and connection. A check-in
\* or check-out that passes its tests is two steps: the reads of the store, and
\* later the write and commit; the steps of the two threads interleave. A
\* request that is answered from its reads alone is one step.
begin_check_in(t, data) ==
    /\ threads[t].pc = "idle"
    /\ IF "user_id" \notin DOMAIN data
       THEN Abort("check_in", 0, data, 400, "Missing user_id", session)
       ELSE IF data["user_id"] \notin DOMAIN users
       THEN Abort("check_in", data["user_id"], data, 404, "Not found", session)
       ELSE
       LET today == DateOf(now)
           existing == filter_by_user_date(attendance, data["user_id"], today)
       IN  IF existing # {}
           THEN Abort("check_in", data["user_id"], data, 400,
                      "Already checked in today", session)
           ELSE /\ threads' = [threads EXCEPT ![t] =
                                  [pc |-> "check_in", user_id |-> data["user_id"],
                                   today |-> today]]
                /\ UNCHANGED <<users, attendance, session, now, last>>

commit_check_in(t, time) ==
    /\ threads[t].pc = "check_in"
    /\ LET id == NextId(attendance)
           row == NewAttendance(threads[t].user_id, time, threads[t].today)
       IN  /\ id \in AttIds
           /\ attendance' = Put(attendance, id, row)
           /\ now' = time
           /\ last' = Response("check_in", row.user_id, [user_id |-> row.user_id],
                               201, "", AttendanceDict(id, row))
    /\ threads' = [threads EXCEPT ![t] = Idle]
    /\ UNCHANGED <<users, session>>

begin_check_out(t, attendance_id) ==
    /\ threads[t].pc = "idle"
    /\ IF attendance_id \notin DOMAIN attendance
       THEN Abort("check_out", attendance_id, NoBody, 404, "Not found", session)
       ELSE IF is_checked_out(attendance[attendance_id])
       THEN Abort("check_out", attendance_id, NoBody, 400, "Already checked out",
                  session)
       ELSE /\ threads' = [threads EXCEPT ![t] =
                              [pc |-> "check_out", id |-> attendance_id]]
            /\ UNCHANGED <<users, attendance, session, now, last>>

commit_check_out(t) ==
    /\ threads[t].pc = "check_out"
    /\ LET id == threads[t].id
           row == [attendance[id] EXCEPT !.check_out = now]
       IN  /\ attendance' = Put(attendance, id, row)
           /\ last' = Response("check_out", id, NoBody, 200, "",
                               AttendanceDict(id, row))
    /\ threads' = [threads EXCEPT ![t] = Idle]
    /\ UNCHANGED <<users, session, now>>

ConcCreateUser == \E data \in ConcPayloads : create_user(data)
BeginCheckIn == \E t \in Threads, data \in CheckInBodies : begin_check_in(t, data)
CommitCheckIn == \E t \in Threads, time \in LaterReads : commit_check_in(t, time)
BeginCheckOut == \E t \in Threads, id \in ReqAttIds : begin_check_out(t, id)
CommitCheckOut == \E t \in Threads : commit_check_out(t)

NextConc ==
    \/ Tick
    \/ ConcCreateUser
    \/ BeginCheckIn
    \/ CommitCheckIn
    \/ BeginCheckOut
    \/ CommitCheckOut

SpecConc == Init /\ [][NextConc]_vars

\* ------------------------------------------------------------- SpecConcDirectory
\* Two worker threads, each with its own session and connection, creating and
\* updating Users. A create or an update that passes its tests is two steps:
\* the queries of the handler, and later the commit, which writes the pending
\* row under the unique constraints of the table.
begin_create_user(t, data) ==
    /\ threads[t].pc = "idle"
    /\ IF ~ (Fields \subseteq DOMAIN data)
       THEN Abort("create_user", 0, data, 400, "Missing required fields", session)
       ELSE IF filter_by_email(users, data["email"]) # {}
       THEN Abort("create_user", 0, data, 400, "Email already exists", session)
       ELSE IF filter_by_employee_id(users, data["employee_id"]) # {}
       THEN Abort("create_user", 0, data, 400, "Employee ID already exists", session)
       ELSE /\ threads' = [threads EXCEPT ![t] = [pc |-> "create_user", data |-> data]]
            /\ UNCHANGED <<users, attendance, session, now, last>>

\* db.session.commit() of create_user: the INSERT, or the IntegrityError that
\* the 500 handler answers
commit_create_user(t) ==
    /\ threads[t].pc = "create_user"
    /\ LET data == threads[t].data
           id == NextId(users)
           row == [name |-> data["name"], email |-> data["email"],
                   employee_id |-> data["employee_id"], created_at |-> now]
           table == Put(users, id, row)
       IN  /\ id \in UserIds
           /\ IF UniqueOK(table)
              THEN /\ users' = table
                   /\ last' = Response("create_user", 0, data, 201, "", UserDict(id, row))
              ELSE /\ users' = users
                   /\ last' = Response("create_user", 0, data, 500,
                                       "Internal server error", NoBody)
    /\ threads' = [threads EXCEPT ![t] = Idle]
    /\ UNCHANGED <<attendance, session, now>>

begin_update_user(t, user_id, data) ==
    /\ threads[t].pc = "idle"
    /\ IF user_id \notin DOMAIN users
       THEN Abort("update_user", user_id, NoBody, 404, "Not found", session)
       ELSE
       LET u1 == SetField(users[user_id], data, "name")
           s1 == Put(Clean, user_id, u1)
           emailClash ==
               "email" \in DOMAIN data /\ email_exists(View(users, s1), u1, data["email"])
           u2 == SetField(u1, data, "email")
           s2 == Put(Clean, user_id, u2)
           idClash ==
               /\ "employee_id" \in DOMAIN data
               /\ employee_id_exists(View(users, s2), u2, data["employee_id"])
       IN  IF emailClash
           THEN Abort("update_user", user_id, data, 400, "Email already exists", session)
           ELSE IF idClash
           THEN Abort("update_user", user_id, data, 400, "Employee ID already exists",
                      session)
           ELSE /\ threads' = [threads EXCEPT ![t] =
                                  [pc |-> "update_user", id |-> user_id, data |-> data,
                                   loaded |-> users[user_id]]]
                /\ UNCHANGED <<users, attendance, session, now, last>>

\* db.session.commit() of update_user: the UPDATE of the columns whose value
\* differs from the loaded one, or the error that the 500 handler answers
commit_update_user(t) ==
    /\ threads[t].pc = "update_user"
    /\ LET id == threads[t].id
           data == threads[t].data
           changed == { k \in DOMAIN data : data[k] # threads[t].loaded[k] }
       IN  IF id \notin DOMAIN users
           THEN /\ users' = users
                /\ last' = Response("update_user", id, data, 500,
                                    "Internal server error", NoBody)
           ELSE LET row == [k \in DOMAIN users[id] |->
                               IF k \in changed THEN data[k] ELSE users[id][k]]
                    table == Put(users, id, row)
                IN  IF UniqueOK(table)
                    THEN /\ users' = table
                         /\ last' = Response("update_user", id, data, 200, "",
                                             UserDict(id, row))
                    ELSE /\ users' = users
                         /\ last' = Response("update_user", id, data, 500,
                                             "Internal server error", NoBody)
    /\ threads' = [threads EXCEPT ![t] = Idle]
    /\ UNCHANGED <<attendance, session, now>>

\* employees that share an email or an employee_id, and patches to them
RacePayloads ==
    { [name |-> "Ada", email |-> "a@x.com", employee_id |-> "E1"],
      [name |-> "Ada", email |-> "a@x.com", employee_id |-> "E2"],
      [name |-> "Ada", email |-> "b@x.com", employee_id |-> "E1"] }
RacePatches ==
    { [email |-> "a@x.com"], [email |-> "b@x.com"],
      [employee_id |-> "E1"], [employee_id |-> "E2"] }

BeginCreateUser == \E t \in Threads, data \in RacePayloads : begin_create_user(t, data)
CommitCreateUser == \E t \in Threads : commit_create_user(t)
BeginUpdateUser ==
    \E t \in Threads, id \in ReqUserIds, data \in RacePatches :
        begin_update_user(t, id, data)
CommitUpdateUser == \E t \in Threads : commit_update_user(t)

NextConcDirectory ==
    \/ BeginCreateUser
    \/ CommitCreateUser
    \/ BeginUpdateUser
    \/ CommitUpdateUser

SpecConcDirectory == Init /\ [][NextConcDirectory]_vars

\* ------------------------------------------------------------- claims (SpecConc)
\* C8: with the lookup and the insert of two concurrent CheckIns of one user
\* interleaved in any order, the store never holds two Attendance records for
\* the same (user_id, date).
C8_CheckInAtomic ==
    \A a, b \in DOMAIN attendance :
        a # b => \/ attendance[a].user_id # attendance[b].user_id
                 \/ attendance[a].date # attendance[b].date

\* C9: with the read and the write of two concurrent CheckOuts of one record
\* interleaved in any order, check_out is written once: a check_out that is set
\* is not replaced.
C9_CheckOutAtomic ==
    [][\A id \in DOMAIN attendance \cap DOMAIN attendance' :
          attendance[id].check_out # NULL
          => attendance'[id].check_out = attendance[id].check_out]_vars

\* ------------------------------------------------------------- claims (SpecConcDirectory)
\* what thread t is about to write is held by another User
PendingConflict(t) ==
    \/ /\ threads[t].pc = "create_user"
       /\ \/ \E j \in DOMAIN users : users[j].email = threads[t].data["email"]
          \/ \E j \in DOMAIN users :
                users[j].employee_id = threads[t].data["employee_id"]
    \/ /\ threads[t].pc = "update_user"
       /\ \E k \in DOMAIN threads[t].data \cap {"email", "employee_id"} :
             /\ threads[t].data[k] # threads[t].loaded[k]
             /\ \E j \in DOMAIN users \ {threads[t].id} :
                   users[j][k] = threads[t].data[k]

SecondCommitRejected ==
    \A t \in Threads :
        (PendingConflict(t) /\ threads'[t] = Idle)
        => /\ last'.status = 500
           /\ users' = users

SameEmailOrId ==
    \E i, j \in DOMAIN users :
        /\ i # j
        /\ \/ users[i].email = users[j].email
           \/ users[i].employee_id = users[j].employee_id

\* C19: when two Creates, or a Create and an Update, of one email or one
\* employee_id both pass their existence tests before either commits, the
\* unique constraints reject the second commit: that request is answered with
\* an error and changes no User, and no state holds two Users with the same
\* email or the same employee_id.
C19_UniqueUnderRace == [](~ SameEmailOrId) /\ [][SecondCommitRejected]_vars

C19_Witness ==
    /\ last.op = "update_user"
    /\ last.status = 500
    /\ "email" \in DOMAIN last.req
    /\ \E j \in DOMAIN users \ {last.id} : users[j].email = last.req["email"]
    /\ \E t \in Threads : threads[t] = Idle

\* ------------------------------------------------------------- claims (SpecDirectory)
UniqueUsers ==
    \A i, j \in DOMAIN users :
        i # j => /\ users[i].email # users[j].email
                 /\ users[i].employee_id # users[j].employee_id

HeldEmail(email, except) ==
    \E j \in DOMAIN users \ except : users[j].email = email

HeldEmployeeId(eid, except) ==
    \E j \in DOMAIN users \ except : users[j].employee_id = eid

CreateDuplicateRejected ==
    (/\ last' # last
     /\ last'.op = "create_user"
     /\ \/ "email" \in DOMAIN last'.req /\ HeldEmail(last'.req["email"], {})
        \/ /\ "employee_id" \in DOMAIN last'.req
           /\ HeldEmployeeId(last'.req["employee_id"], {}))
    => /\ last'.status = 400
       /\ users' = users

\* C2: no two distinct Users ever share an email or an employee_id, and a
\* Create whose email or employee_id an existing User holds is answered 400 and
\* leaves the Users as they were.
C2_UniqueUsers == [](UniqueUsers) /\ [][CreateDuplicateRejected]_vars

C2_Witness ==
    /\ last.op = "create_user"
    /\ last.status = 400
    /\ last.error = "Employee ID already exists"
    /\ ~ HeldEmail(last.req["email"], {})
    /\ HeldEmployeeId(last.req["employee_id"], {})

\* the row with exactly the fields of the patch replaced
Patched(row, data) ==
    [name |-> IF "name" \in DOMAIN data THEN data["name"] ELSE row.name,
     email |-> IF "email" \in DOMAIN data THEN data["email"] ELSE row.email,
     employee_id |-> IF "employee_id" \in DOMAIN data
                     THEN data["employee_id"] ELSE row.employee_id,
     created_at |-> row.created_at]

PatchConflicts(id, data) ==
    \/ "email" \in DOMAIN data /\ HeldEmail(data["email"], {id})
    \/ "employee_id" \in DOMAIN data /\ HeldEmployeeId(data["employee_id"], {id})

UpdateOutcome(id, data) ==
    IF id \notin DOMAIN users
    THEN last'.status = 404 /\ users' = users
    ELSE IF PatchConflicts(id, data)
    THEN last'.status = 400
    ELSE /\ last'.status = 200
         /\ DOMAIN users' = DOMAIN users
         /\ users'[id] = Patched(users[id], data)
         /\ \A j \in DOMAIN users \ {id} : users'[j] = users[j]

\* C6: Update of an existing User is answered 400 exactly when the patch has
\* an email or an employee_id that a different User holds; otherwise, also
\* when the patch repeats the User's own email or employee_id, it is answered
\* 200 and the stored User has exactly the patched fields replaced, id and
\* created_at as before. Update of an unknown id is answered 404.
C6_UpdateConflict ==
    [][(last' # last /\ last'.op = "update_user")
       => UpdateOutcome(last'.id, last'.req)]_vars

C6_Witness ==
    /\ last.op = "update_user"
    /\ last.status = 400
    /\ last.error = "Employee ID already exists"
    /\ "email" \in DOMAIN last.req
    /\ last.req["email"] = users[last.id].email
    /\ HeldEmployeeId(last.req["employee_id"], {last.id})

CreateAccepted ==
    (/\ last' # last
     /\ last'.op = "create_user"
     /\ Fields \subseteq DOMAIN last'.req
     /\ ~ HeldEmail(last'.req["email"], {})
     /\ ~ HeldEmployeeId(last'.req["employee_id"], {}))
    => /\ last'.status = 201
       /\ \E id \in DOMAIN users' \ DOMAIN users :
             /\ DOMAIN users' = DOMAIN users \cup {id}
             /\ users'[id].name = last'.req["name"]
             /\ users'[id].email = last'.req["email"]
             /\ users'[id].employee_id = last'.req["employee_id"]
             /\ last'.body = UserDict(id, users'[id])
       /\ \A j \in DOMAIN users : users'[j] = users[j]
       /\ attendance' = attendance

GetAfterCreate ==
    (/\ last.op = "create_user"
     /\ last.status = 201
     /\ last'.op = "get_user"
     /\ last'.id = last.body.id)
    => /\ last'.status = 200
       /\ last'.body = last.body

\* C12: a Create that carries name, email and employee_id, the email and the
\* employee_id held by no User, is answered 201 and adds exactly one User,
\* under an id no existing User has, with the name, email and employee_id of
\* the request; a Get of the returned id right afterwards returns the same
\* data; the Users that existed and the Attendance records stay as they were.
C12_CreateGet == [][CreateAccepted /\ GetAfterCreate]_vars

C12_Witness ==
    /\ last.op = "create_user"
    /\ last.status = 201
    /\ DOMAIN users = {1, 2}
    /\ last.body = UserDict(2, users[2])
    /\ users[2].name = ""
    /\ users[1].email = "c@x.com"

NameNonEmpty == \A i \in DOMAIN users : users[i].name # ""

CreateIncompleteRejected ==
    (/\ last' # last
     /\ last'.op = "create_user"
     /\ ~ (Fields \subseteq DOMAIN last'.req))
    => /\ last'.status = 400
       /\ users' = users

\* C17: every stored User has a non-empty name: Create answers 400 to a
\* request without name, email or employee_id, and neither Create nor Update
\* stores a User whose name is the empty text.
C17_NameNonEmpty == [](NameNonEmpty) /\ [][CreateIncompleteRejected]_vars

ErrorNoChange == last'.status >= 400 => UNCHANGED <<users, attendance>>

\* what a successful request does to the Users: nothing beyond its own effect
OwnEffectOnly ==
    (last'.status < 400 /\ last' # last)
    => /\ \A j \in DOMAIN users \cap DOMAIN users' :
              IF last'.op = "update_user" /\ j = last'.id
              THEN users'[j] = Patched(users[j], last'.req)
              ELSE users'[j] = users[j]
       /\ last'.op = "get_user" => last'.body = UserDict(last'.id, users[last'.id])

\* C7: a request answered with an error changes neither Users nor Attendance;
\* the fields an Update assigned before it was answered 400 are pending in no
\* later request, persisted by none and returned by none.
C7_ErrorNoChange == [](session = Clean) /\ [][ErrorNoChange /\ OwnEffectOnly]_vars

C7_Witness ==
    /\ last.op = "update_user"
    /\ last.status = 400
    /\ last.error = "Employee ID already exists"
    /\ "name" \in DOMAIN last.req
    /\ last.req["name"] # users[last.id].name
    /\ "email" \in DOMAIN last.req
    /\ last.req["email"] # users[last.id].email
    /\ ~ HeldEmail(last.req["email"], {})

====
